---------------------------- MODULE Spec2Model ----------------------------
(***************************************************************************)
(* State-machine model of the bicycle MPC controller (MpcController) of    *)
(* the motion stack: the per-cycle command computation, the reference      *)
(* window bookkeeping, the solver bridge, the command interpolation, the   *)
(* trajectory validator and the configuration replacement.                 *)
(*                                                                         *)
(* Durations are in milliseconds.  Real-valued solver data are integers;   *)
(* NonFinite stands for any IEEE value that std::isfinite rejects.         *)
(* The interpolated command fields are kept multiplied by                  *)
(* solver_time_step, so that the interpolation parameter dt/step needs no  *)
(* fractions.                                                              *)
(***************************************************************************)
EXTENDS Integers, Sequences, FiniteSets, TLC

\* ------------------------------------------------------------------------
\* Build-time constants of the generated solver problem
\* ------------------------------------------------------------------------
HORIZON == 5
NX == 4
IDX_X == 0
IDX_Y == 1
IDX_HEADING == 2
IDX_VEL_LONG == 3
NU == 2
IDX_JERK == 0
IDX_WHEEL_ANGLE_RATE == 1
ACADO_NOD == 2
NUM_CTRL_CONSTRAINTS == 2
NUM_STATE_CONSTRAINTS == 1
solver_time_step == 100

\* The value std::isfinite rejects (NaN, +Inf, -Inf).
NonFinite == -1000000

\* ------------------------------------------------------------------------
\* Bounds of the model
\* ------------------------------------------------------------------------
\* compute_command calls per run.
MaxCycles == 2
\* Number of distinct non-zero solver status codes tried.
MaxStatus == 2
\* Bits of the modelled unsigned index type.
IndexBits == 16

\* Unsigned index arithmetic wraps modulo 2^IndexBits.  The width is reduced
\* from that of std::size_t because the model checker's integers are 32 bit;
\* every index of the model is far below the modulus, as in the program.
IndexModulus == 2 ^ IndexBits

\* ------------------------------------------------------------------------
\* Small helpers
\* ------------------------------------------------------------------------
Min(a, b) == IF a <= b THEN a ELSE b

\* C++ integer division truncates toward zero.
TruncDiv(a, b) == IF a >= 0 THEN a \div b ELSE -((-a) \div b)

\* Unsigned subtraction of two indices: wraps modulo the index width.
IndexSub(a, b) == (a - b) % IndexModulus

IsFinite(v) == v # NonFinite

\* 0-based element of a sequence, as the code indexes a vector.
At(s, i) == s[i + 1]

\* ------------------------------------------------------------------------
\* Headings: the angle-bearing representation is a unit complex number;
\* the model uses the four axis directions, angles counted in quarter turns.
\* ------------------------------------------------------------------------
East == [real |-> 1, imag |-> 0]
North == [real |-> 0, imag |-> 1]
West == [real |-> -1, imag |-> 0]
South == [real |-> 0, imag |-> -1]
\* Not a normalized 2D orientation.
BadHeading == [real |-> 2, imag |-> 0]

\* motion_common::to_angle: the scalar angle of a heading, in (-2, 2] quarter turns.
to_angle(h) ==
  CASE h = East -> 0
    [] h = North -> 1
    [] h = West -> 2
    [] h = South -> -1
    [] OTHER -> 0

\* motion_common::from_angle: the heading of a scalar angle.
from_angle(a) ==
  IF ~IsFinite(a) THEN BadHeading
  ELSE CASE a % 4 = 0 -> East
         [] a % 4 = 1 -> North
         [] a % 4 = 2 -> West
         [] OTHER -> South

\* motion_common::heading_ok for one heading: a normalized 2D orientation.
heading_valid(h) == (h.real * h.real) + (h.imag * h.imag) = 1

\* ------------------------------------------------------------------------
\* Configurations
\* ------------------------------------------------------------------------
ConfigA ==
  [do_interpolate |-> FALSE, control_lookahead_duration |-> 250,
   sample_period_tolerance |-> 10,
   length_cg_front_axel |-> 1, length_cg_rear_axel |-> 2,
   acceleration_min |-> -3, acceleration_max |-> 3,
   steer_angle_min |-> -1, steer_angle_max |-> 1,
   longitudinal_velocity_min |-> 0, longitudinal_velocity_max |-> 20,
   nominal |-> 10, terminal |-> 100]

ConfigB ==
  [do_interpolate |-> TRUE, control_lookahead_duration |-> 0,
   sample_period_tolerance |-> 10,
   length_cg_front_axel |-> 2, length_cg_rear_axel |-> 3,
   acceleration_min |-> -2, acceleration_max |-> 2,
   steer_angle_min |-> -2, steer_angle_max |-> 2,
   longitudinal_velocity_min |-> 1, longitudinal_velocity_max |-> 30,
   nominal |-> 20, terminal |-> 200]

\* Two more lookahead durations: beyond the horizon's span, and one step.
ConfigC == [ConfigA EXCEPT !.control_lookahead_duration = 1000]
ConfigD == [ConfigB EXCEPT !.control_lookahead_duration = 100]

ConfigSet == {ConfigA, ConfigB}

\* ------------------------------------------------------------------------
\* Trajectories and vehicle states offered by the collaborators
\* ------------------------------------------------------------------------
\* A trajectory that ends inside the first horizon, and one longer than it.
ShortLen == HORIZON - 2
LongLen == HORIZON + 1

\* A trajectory of len points, nominally spaced by solver_time_step, whose
\* point devIdx is dev ms off its nominal time and whose point badIdx (if
\* any) carries an invalid heading.
MakeTrajectory(len, devIdx, dev, badIdx) ==
  [stamp |-> 1000,
   points |-> [i \in 1..len |->
     [time_from_start |-> ((i - 1) * solver_time_step)
                            + (IF i - 1 = devIdx THEN dev ELSE 0),
      x |-> i - 1, y |-> 0,
      heading |-> IF i - 1 = badIdx THEN BadHeading ELSE East,
      longitudinal_velocity_mps |-> 4 + i]]]

\* The trajectories offered between cycles: a short and a long well-spaced
\* one, and one with an invalid heading.
TrajectorySet ==
  {MakeTrajectory(ShortLen, -1, 0, -1), MakeTrajectory(LongLen, -1, 0, -1),
   MakeTrajectory(ShortLen, -1, 0, 2)}

\* The trajectories offered to the validator alone: every deviation around
\* both tolerances at the first, a middle and the last point, with and
\* without an invalid heading.
Deviations == {-11, -10, -6, -5, 0, 5, 6, 10, 11}

ValidatorTrajectorySet ==
  {MakeTrajectory(ShortLen, i, d, b) :
     i \in 0..(ShortLen - 1), d \in Deviations, b \in {-1, 0}}

EmptyTrajectory == [stamp |-> 0, points |-> <<>>]

\* The state message of a cycle: a pose, stamped off ms before the time t.
StateMessage(t, off) ==
  [stamp |-> t - off, x |-> 3, y |-> 1, heading |-> North,
   longitudinal_velocity_mps |-> 7]

\* No cycle: no compute_command call has returned.
NoCycle == [none |-> TRUE]

\* No config: the call before was not set_config.
NoConfig == [none |-> TRUE]

NoState ==
  [stamp |-> 0, x |-> 0, y |-> 0, heading |-> East, longitudinal_velocity_mps |-> 0]

\* ------------------------------------------------------------------------
\* State
\* ------------------------------------------------------------------------
VARIABLES
  m_config,                  \* the held Config
  m_interpolated_trajectory, \* the owned working copy: [present, traj]
  m_last_reference_index,
  reference,                 \* the held reference trajectory
  x0,                        \* acadoVariables.x0: initial condition, NX entries
  x,                         \* acadoVariables.x: state sequence, HORIZON*NX entries
  u,                         \* acadoVariables.u: control sequence, HORIZON*NU entries
  od,                        \* acadoVariables.od: per-step online parameters
  lbValues, ubValues,        \* control bounds, per step
  lbAValues, ubAValues,      \* state (affine) bounds, per step
  W_nominal,                 \* nominal weight of each horizon step
  W_terminal,                \* terminal weight of each horizon step
  pc,                        \* position inside compute_command_impl
  current_idx,               \* locals of the running (or last) cycle
  advance_idx,
  cold_start,
  dt,
  state,
  checked_horizon,           \* local horizon of compute_command_impl
  outcome,                   \* what the last cycle or call returned
  trace,                     \* the steps the running (or last) cycle has executed
  solver_returns,            \* the statuses the solver phases returned in it, in order
  offered,                   \* the trajectory last offered to the validator
  indices_nondecreasing,     \* history: all resolved indices so far were non-decreasing
  previous_idx,              \* history: the index the cycle before resolved
  cycles,                    \* compute_command calls so far
  config_just_set,           \* history: the config, if the call before was set_config
  completed_warm_index,      \* history: m_last_reference_index when a warm cycle last
                             \* returned a Command (0: none has)
  previous_cycle             \* history: index and outcome kind of the compute_command
                             \* call that returned last

vars ==
  <<m_config, m_interpolated_trajectory, m_last_reference_index, reference,
    x0, x, u, od, lbValues, ubValues, lbAValues, ubAValues, W_nominal,
    W_terminal, pc, current_idx, advance_idx, cold_start, dt, state,
    checked_horizon, outcome,
    trace, solver_returns, offered, indices_nondecreasing, previous_idx, cycles,
    config_just_set, completed_warm_index, previous_cycle>>

solver_vars == <<x0, x, u>>
bound_vars == <<od, lbValues, ubValues, lbAValues, ubAValues>>
weight_vars == <<W_nominal, W_terminal>>
cycle_vars == <<current_idx, advance_idx, cold_start, dt, state, checked_horizon>>
history_vars == <<indices_nondecreasing, previous_idx, cycles>>

Steps == 0..(HORIZON - 1)
XIndices == 0..((HORIZON * NX) - 1)
UIndices == 0..((HORIZON * NU) - 1)

\* ------------------------------------------------------------------------
\* Values returned to the caller
\* ------------------------------------------------------------------------
ZeroCommand ==
  [long_accel_mps2 |-> 0, front_wheel_angle_rad |-> 0, velocity_mps |-> 0,
   rear_wheel_angle_rad |-> 0]

NoOutcome == [kind |-> "none", what |-> "", code |-> 0, command |-> ZeroCommand]

ReturnCommand(c) == [kind |-> "command", what |-> "", code |-> 0, command |-> c]

\* std::runtime_error with message what + std::to_string(code).
RuntimeError(what, code) ==
  [kind |-> "runtime_error", what |-> what, code |-> code, command |-> ZeroCommand]

\* The process died on undefined behaviour (an access outside an array).
Crash == [kind |-> "crash", what |-> "", code |-> 0, command |-> ZeroCommand]

\* What a read outside an array may yield.
GarbageValues == {42, NonFinite}

\* ------------------------------------------------------------------------
\* The embedded solver (black box): what a solve may leave in the buffers
\* ------------------------------------------------------------------------
StatusCodes == 0..MaxStatus

\* A control sequence and a state sequence a successful solve leaves: the
\* controls are no linear function of the step.
SolvedU == [i \in UIndices |->
  IF i % NU = IDX_JERK THEN 1 + ((i \div NU) * (i \div NU))
  ELSE -(2 * ((i \div NU) * (i \div NU))) - 1]

SolvedX == [i \in XIndices |->
  CASE i % NX = IDX_X -> i \div NX
    [] i % NX = IDX_Y -> 0
    [] i % NX = IDX_HEADING -> 0
    [] OTHER -> 10 + (i \div NX)]

\* A solution, and a diverged one: a non-finite control sample and a
\* non-finite predicted velocity.
Solution == [u |-> SolvedU, x |-> SolvedX]
Diverged ==
  [u |-> [SolvedU EXCEPT ![(1 * NU) + IDX_JERK] = NonFinite],
   x |-> [SolvedX EXCEPT ![(4 * NX) + IDX_VEL_LONG] = NonFinite]]
DivergedLate ==
  [u |-> [SolvedU EXCEPT ![(3 * NU) + IDX_WHEEL_ANGLE_RATE] = NonFinite],
   x |-> [SolvedX EXCEPT ![(2 * NX) + IDX_VEL_LONG] = NonFinite]]

ZeroControls == [i \in UIndices |-> 0]

\* Cosine and sine of an angle given in quarter turns.
CosQ(a) == CASE a % 4 = 0 -> 1 [] a % 4 = 2 -> -1 [] OTHER -> 0
SinQ(a) == CASE a % 4 = 1 -> 1 [] a % 4 = 3 -> -1 [] OTHER -> 0

\* One integration step of the kinematic model from node (px, py, th, v)
\* under the control (a, w).
SimStep(n, a, w) ==
  IF \E k \in 1..NX : ~IsFinite(n[k]) \/ ~IsFinite(a) \/ ~IsFinite(w)
  THEN <<NonFinite, NonFinite, NonFinite, NonFinite>>
  ELSE <<n[1] + (n[4] * CosQ(n[3])), n[2] + (n[4] * SinQ(n[3])), n[3] + w, n[4] + a>>

RECURSIVE SimNode(_, _, _)
\* Node k of the forward simulation from the first node of xs under us.
SimNode(xs, us, k) ==
  IF k = 0
  THEN <<xs[IDX_X], xs[IDX_Y], xs[IDX_HEADING], xs[IDX_VEL_LONG]>>
  ELSE SimStep(SimNode(xs, us, k - 1), us[((k - 1) * NU) + IDX_JERK],
               us[((k - 1) * NU) + IDX_WHEEL_ANGLE_RATE])

\* acado_initializeNodesByForwardSimulation: every node after the first is
\* the integration of its predecessor under the control sequence.
ForwardSimulation(xs, us) ==
  [i \in XIndices |-> SimNode(xs, us, i \div NX)[(i % NX) + 1]]

\* ------------------------------------------------------------------------
\* Constraint and weight applier
\* ------------------------------------------------------------------------
\* apply_parameters: the two geometry parameters, into every step's slots.
apply_parameters(cfg) ==
  [i \in 0..((HORIZON * ACADO_NOD) - 1) |->
    IF i % ACADO_NOD = 0 THEN cfg.length_cg_front_axel
    ELSE cfg.length_cg_rear_axel]

\* Faulty variant of apply_bounds: only the first step is written, the other
\* steps keep the zeros of the cleared workspace.
apply_bounds_first_step(cfg) ==
  [lbValues |-> [i \in 0..((HORIZON * NUM_CTRL_CONSTRAINTS) - 1) |->
      IF i = 0 THEN cfg.acceleration_min
      ELSE IF i = 1 THEN cfg.steer_angle_min ELSE 0],
   ubValues |-> [i \in 0..((HORIZON * NUM_CTRL_CONSTRAINTS) - 1) |->
      IF i = 0 THEN cfg.acceleration_max
      ELSE IF i = 1 THEN cfg.steer_angle_max ELSE 0],
   lbAValues |-> [i \in 0..((HORIZON * NUM_STATE_CONSTRAINTS) - 1) |->
      IF i = 0 THEN cfg.longitudinal_velocity_min ELSE 0],
   ubAValues |-> [i \in 0..((HORIZON * NUM_STATE_CONSTRAINTS) - 1) |->
      IF i = 0 THEN cfg.longitudinal_velocity_max ELSE 0]]

\* apply_bounds: lbValues, ubValues (controls) and lbAValues, ubAValues (state).
apply_bounds(cfg) ==
  [lbValues |-> [i \in 0..((HORIZON * NUM_CTRL_CONSTRAINTS) - 1) |->
      IF i % NUM_CTRL_CONSTRAINTS = 0 THEN cfg.acceleration_min
      ELSE cfg.steer_angle_min],
   ubValues |-> [i \in 0..((HORIZON * NUM_CTRL_CONSTRAINTS) - 1) |->
      IF i % NUM_CTRL_CONSTRAINTS = 0 THEN cfg.acceleration_max
      ELSE cfg.steer_angle_max],
   lbAValues |-> [i \in 0..((HORIZON * NUM_STATE_CONSTRAINTS) - 1) |->
      cfg.longitudinal_velocity_min],
   ubAValues |-> [i \in 0..((HORIZON * NUM_STATE_CONSTRAINTS) - 1) |->
      cfg.longitudinal_velocity_max]]

\* apply_weights: nominal weights on every step, the terminal weight on the
\* final horizon step.
apply_weights(cfg) ==
  [W_nominal |-> [i \in Steps |-> cfg.nominal],
   W_terminal |-> [i \in Steps |-> IF i = HORIZON - 1 THEN cfg.terminal ELSE 0]]

\* apply_terminal_weights(idx): the terminal weight on step idx.
apply_terminal_weights(wt, idx) ==
  IF idx \in Steps THEN [wt EXCEPT ![idx] = m_config.terminal] ELSE wt

\* zero_nominal_weights(start, end): no nominal weight on steps [start, end).
zero_nominal_weights(wn, start, end) ==
  [i \in Steps |-> IF start <= i /\ i < end THEN 0 ELSE wn[i]]

\* zero_terminal_weights, called after apply_terminal_weights(keep): no
\* terminal weight anywhere else.
zero_terminal_weights(wt, keep) ==
  [i \in Steps |-> IF i = keep THEN wt[i] ELSE 0]

\* MpcController::apply_config: the arrays it writes.
apply_config(cfg) ==
  LET parameters == apply_parameters(cfg)
      bounds == apply_bounds(cfg)
      weights == apply_weights(cfg)
  IN [od |-> parameters,
      lbValues |-> bounds.lbValues,
      ubValues |-> bounds.ubValues,
      lbAValues |-> bounds.lbAValues,
      ubAValues |-> bounds.ubAValues,
      W_nominal |-> weights.W_nominal,
      W_terminal |-> weights.W_terminal]

\* Faulty variant of set_config: the solver is initialized again, as in the
\* constructor.
set_config_reinitializing(cfg) ==
  LET applied == apply_config(cfg)
  IN
  [m_config |-> cfg,
   od |-> applied.od,
   lbValues |-> applied.lbValues,
   ubValues |-> applied.ubValues,
   lbAValues |-> applied.lbAValues,
   ubAValues |-> applied.ubAValues,
   W_nominal |-> applied.W_nominal,
   W_terminal |-> applied.W_terminal,
   x0 |-> [i \in 0..(NX - 1) |-> 0],
   x |-> [i \in XIndices |-> 0],
   u |-> ZeroControls,
   m_last_reference_index |-> 0]

\* Faulty variant of set_config: the weights of the new config are added to
\* the ones in place.
set_config_accumulating(cfg) ==
  LET applied == apply_config(cfg)
  IN
  [m_config |-> cfg,
   od |-> applied.od,
   lbValues |-> applied.lbValues,
   ubValues |-> applied.ubValues,
   lbAValues |-> applied.lbAValues,
   ubAValues |-> applied.ubAValues,
   W_nominal |-> [i \in Steps |-> W_nominal[i] + applied.W_nominal[i]],
   W_terminal |-> applied.W_terminal,
   x0 |-> x0,
   x |-> x,
   u |-> u,
   m_last_reference_index |-> m_last_reference_index]

\* MpcController::set_config: the members and arrays it leaves.
set_config(cfg) ==
  LET applied == apply_config(cfg)
  IN
  [m_config |-> cfg,
   od |-> applied.od,
   lbValues |-> applied.lbValues,
   ubValues |-> applied.ubValues,
   lbAValues |-> applied.lbAValues,
   ubAValues |-> applied.ubAValues,
   W_nominal |-> applied.W_nominal,
   W_terminal |-> applied.W_terminal,
   x0 |-> x0,
   x |-> x,
   u |-> u,
   m_last_reference_index |-> m_last_reference_index]

\* ------------------------------------------------------------------------
\* Reference window manager
\* ------------------------------------------------------------------------
\* Shift an array of HORIZON blocks of stride entries forward by count
\* blocks; the vacated tail repeats the last block.
ShiftBlocks(arr, stride, count) ==
  [i \in DOMAIN arr |->
    arr[(Min((i \div stride) + count, HORIZON - 1) * stride) + (i % stride)]]

\* advance_problem(count): roll the previous solution forward by count steps.
advance_problem(xs, us, count) ==
  [x |-> ShiftBlocks(xs, NX, count), u |-> ShiftBlocks(us, NU, count)]

\* The solver state vector of a trajectory point.
PointState(pt) ==
  <<pt.x, pt.y, to_angle(pt.heading), pt.longitudinal_velocity_mps>>

\* backfill_reference(count): the last count nodes take the states of the
\* reference points they now stand for.
backfill_reference(xs, current, count) ==
  [i \in XIndices |->
    IF (i \div NX) + count >= HORIZON
       /\ current + (i \div NX) < Len(reference.points)
    THEN PointState(At(reference.points, current + (i \div NX)))[(i % NX) + 1]
    ELSE xs[i]]

\* Faulty variant of update_references: the index of a warm cycle is not
\* remembered.
update_references_keeping_index(current) ==
  [cold_start |-> (0 = current),
   advance_idx |-> IF 0 = current THEN 0
                   ELSE IndexSub(current, m_last_reference_index),
   x |-> x, u |-> u, W_nominal |-> W_nominal, W_terminal |-> W_terminal,
   m_last_reference_index |-> m_last_reference_index]

\* Faulty variant of update_references: the index is set before the
\* bookkeeping, which then advances by nothing.
update_references_index_first(current) ==
  IF 0 = current
  THEN [cold_start |-> TRUE, advance_idx |-> 0, x |-> x, u |-> u,
        W_nominal |-> W_nominal, W_terminal |-> W_terminal,
        m_last_reference_index |-> m_last_reference_index]
  ELSE [cold_start |-> FALSE, advance_idx |-> 0, x |-> x, u |-> u,
        W_nominal |-> W_nominal, W_terminal |-> W_terminal,
        m_last_reference_index |-> current]

\* Faulty variant of update_references: a warm cycle advances by its whole
\* index, whatever index the cycle before had reached.
update_references_advancing_from_zero(current) ==
  IF 0 = current
  THEN [cold_start |-> TRUE, advance_idx |-> 0, x |-> x, u |-> u,
        W_nominal |-> W_nominal, W_terminal |-> W_terminal,
        m_last_reference_index |-> m_last_reference_index]
  ELSE [cold_start |-> FALSE, advance_idx |-> current,
        x |-> advance_problem(x, u, current).x,
        u |-> advance_problem(x, u, current).u,
        W_nominal |-> W_nominal, W_terminal |-> W_terminal,
        m_last_reference_index |-> current]

\* MpcController::update_references: the values it leaves, and its result.
update_references(current) ==
  LET cold == (0 = current)
      advance == IndexSub(current, m_last_reference_index)
      shifted == advance_problem(x, u, advance)
      max_pts == Len(reference.points)
      receded_horizon == IndexSub(max_pts, current)
      keep == IndexSub(receded_horizon, 1)
  IN IF cold
     THEN [cold_start |-> TRUE, advance_idx |-> 0, x |-> x, u |-> u,
           W_nominal |-> W_nominal, W_terminal |-> W_terminal,
           m_last_reference_index |-> m_last_reference_index]
     ELSE IF IndexSub(max_pts, current) >= HORIZON
     THEN [cold_start |-> FALSE, advance_idx |-> advance,
           x |-> backfill_reference(shifted.x, current, advance),
           u |-> shifted.u,
           W_nominal |-> W_nominal, W_terminal |-> W_terminal,
           m_last_reference_index |-> current]
     ELSE [cold_start |-> FALSE, advance_idx |-> advance,
           x |-> shifted.x, u |-> shifted.u,
           W_nominal |-> zero_nominal_weights(W_nominal, receded_horizon,
                           (receded_horizon + advance) % IndexModulus),
           W_terminal |-> zero_terminal_weights(
                            apply_terminal_weights(W_terminal, keep), keep),
           m_last_reference_index |-> current]

\* Faulty variant of the horizon of the consistency check: the reference is
\* taken to cover the full horizon.
full_horizon(current) == HORIZON

\* The effective horizon compute_command_impl hands to the consistency check.
effective_horizon(current) ==
  Min(IndexSub(Len(reference.points), current), HORIZON)

\* ensure_reference_consistency(horizon): for a horizon truncated below
\* HORIZON the terminal/zeroing policy of update_references is applied again
\* for the truncated length.
ensure_reference_consistency(horizon) ==
  IF horizon < HORIZON
  THEN [W_nominal |-> zero_nominal_weights(W_nominal, horizon,
                        (horizon + advance_idx) % IndexModulus),
        W_terminal |-> zero_terminal_weights(
                         apply_terminal_weights(W_terminal, IndexSub(horizon, 1)),
                         IndexSub(horizon, 1))]
  ELSE [W_nominal |-> W_nominal, W_terminal |-> W_terminal]

\* Faulty variant of cold_start_reset: the controls are zeroed, the state
\* sequence is not simulated.
reset_without_simulation(cold, xs, us) ==
  IF cold THEN [u |-> ZeroControls, x |-> xs] ELSE [u |-> us, x |-> xs]

\* if (cold_start) { std::fill(u, 0); acado_initializeNodesByForwardSimulation(); }
cold_start_reset(cold, xs, us) ==
  IF cold
  THEN [u |-> ZeroControls, x |-> ForwardSimulation(xs, ZeroControls)]
  ELSE [u |-> us, x |-> xs]

\* ------------------------------------------------------------------------
\* Solver bridge
\* ------------------------------------------------------------------------
\* x0_time_offset: what the reference's stamp at idx is ahead of the state's.
\* A read past the trajectory's end is undefined: any offset, or no return.
x0_time_offset(st, idx) ==
  IF idx < Len(reference.points)
  THEN {(reference.stamp + At(reference.points, idx).time_from_start) - st.stamp}
  ELSE {reference.stamp - st.stamp}

\* predict: the state the initial condition is taken from.  With
\* interpolation it is the working copy sampled at the offset d (the point
\* at or before it); a missing working copy is a null dereference (no
\* result).
predict(st, d) ==
  LET verbatim == [x |-> st.x, y |-> st.y, heading |-> st.heading,
                   longitudinal_velocity_mps |-> st.longitudinal_velocity_mps]
  IN IF ~m_config.do_interpolate
     THEN {verbatim}
     ELSE IF ~m_interpolated_trajectory.present
     THEN {}
     ELSE LET pts == m_interpolated_trajectory.traj.points
              j == TruncDiv(d, solver_time_step)
              k == IF j < 0 THEN 0 ELSE Min(j, Len(pts) - 1)
          IN IF Len(pts) = 0
             THEN {verbatim}
             ELSE {[x |-> At(pts, k).x, y |-> At(pts, k).y,
                    heading |-> At(pts, k).heading,
                    longitudinal_velocity_mps |->
                      At(pts, k).longitudinal_velocity_mps]}

\* initial_conditions: x0 and the first node of the state sequence.
initial_conditions(point) ==
  LET v == PointState(point)
  IN [x0 |-> [i \in 0..(NX - 1) |-> v[i + 1]],
      x |-> [i \in XIndices |-> IF i < NX THEN v[i + 1] ELSE x[i]]]

\* Faulty variant of preparation_result: the status of the preparation phase
\* is not looked at.
preparation_unchecked(prep_ret) == NoOutcome

\* solve, after acado_preparationStep returned prep_ret: the error thrown, or
\* none.
preparation_result(prep_ret) ==
  IF 0 # prep_ret
  THEN RuntimeError("Solver preparation error: ", prep_ret)
  ELSE NoOutcome

\* solve, after acado_feedbackStep returned solve_ret.
feedback_result(solve_ret) ==
  IF 0 # solve_ret
  THEN RuntimeError("Solver error: ", solve_ret)
  ELSE NoOutcome

\* ------------------------------------------------------------------------
\* Command interpolator
\* ------------------------------------------------------------------------
\* motion_common::interpolate(a, b, t) for t = num / solver_time_step, times
\* solver_time_step: linear interpolation from a to b.
interpolate(a, b, num) ==
  IF ~IsFinite(a) \/ ~IsFinite(b) THEN NonFinite
  ELSE (a * solver_time_step) + (num * (b - a))

\* dt_ of interpolated_command: the lookahead left, at most the horizon's span.
interpolation_span(x0_offset) ==
  LET dt_ == m_config.control_lookahead_duration - x0_offset
      max_dt == solver_time_step * (HORIZON - 1)
  IN IF dt_ > max_dt THEN max_dt ELSE dt_

\* Faulty variant of interpolation_count: the time offset of x0 is left out.
count_ignoring_offset(x0_offset) ==
  Min(TruncDiv(m_config.control_lookahead_duration, solver_time_step), HORIZON - 2)

\* count of interpolated_command.
interpolation_count(x0_offset) ==
  Min(TruncDiv(interpolation_span(x0_offset), solver_time_step), HORIZON - 2)

\* dt of interpolated_command: the numerator of the interpolation parameter t.
interpolation_dt(x0_offset) ==
  interpolation_span(x0_offset) - (interpolation_count(x0_offset) * solver_time_step)

\* The element of the state sequence interpolated_command reads the velocity from.
velocity_index(count) == ((count * NU) * NX) + IDX_VEL_LONG

\* The Command built by interpolated_command, g_u and g_x standing for what
\* a read outside u and x yields.
interpolated_fields(x0_offset, g_u, g_x) ==
  LET count == interpolation_count(x0_offset)
      num == interpolation_dt(x0_offset)
      idx == count * NU
      jdx == (count + 1) * NU
      ReadU(i) == IF i \in UIndices THEN u[i] ELSE g_u
      ReadX(i) == IF i \in XIndices THEN x[i] ELSE g_x
  IN [rear_wheel_angle_rad |-> 0,
      front_wheel_angle_rad |->
        interpolate(ReadU(idx + IDX_WHEEL_ANGLE_RATE),
                    ReadU(jdx + IDX_WHEEL_ANGLE_RATE), num),
      long_accel_mps2 |->
        interpolate(ReadU(idx + IDX_JERK), ReadU(jdx + IDX_JERK), num),
      velocity_mps |-> ReadX(velocity_index(count))]

\* The finiteness check of interpolated_command on the Command built.
checked_command(ret) ==
  IF ~IsFinite(ret.long_accel_mps2) \/ ~IsFinite(ret.front_wheel_angle_rad)
  THEN RuntimeError("interpolation failed, result is not finite (NaN/Inf)", 0)
  ELSE ReturnCommand(ret)

\* Whether interpolated_command reads outside the control or state sequence.
reads_out_of_bounds(x0_offset) ==
  LET count == interpolation_count(x0_offset)
  IN \/ (count * NU) \notin UIndices
     \/ (((count + 1) * NU) + IDX_WHEEL_ANGLE_RATE) \notin UIndices
     \/ velocity_index(count) \notin XIndices

\* MpcController::interpolated_command: every outcome the call can have.
interpolated_command(x0_offset) ==
  IF reads_out_of_bounds(x0_offset)
  THEN {Crash} \cup
       {checked_command(interpolated_fields(x0_offset, g_u, g_x)) :
          g_u \in GarbageValues, g_x \in GarbageValues}
  ELSE {checked_command(interpolated_fields(x0_offset, 0, 0))}

\* ------------------------------------------------------------------------
\* Trajectory validator and diagnostics
\* ------------------------------------------------------------------------
\* motion_common::heading_ok: every heading is a normalized 2D orientation.
heading_ok(trajectory) ==
  \A i \in 1..Len(trajectory.points) : heading_valid(trajectory.points[i].heading)

\* Faulty variant of point_time_ok: a point exactly on the tolerance is
\* refused.
point_time_strict(trajectory, idx) ==
  LET pt == At(trajectory.points, idx)
      ref == (idx * solver_time_step) + trajectory.stamp
      tol == m_config.sample_period_tolerance
      t == pt.time_from_start + trajectory.stamp
  IN ~((t <= ref - tol) \/ (t >= ref + tol))

\* The time check of check_new_trajectory on point idx.
point_time_ok(trajectory, idx) ==
  LET pt == At(trajectory.points, idx)
      t0 == trajectory.stamp
      ref == (idx * solver_time_step) + t0
      tol == m_config.sample_period_tolerance
      ub == ref + tol
      lb == ref - tol
      t == pt.time_from_start + t0
  IN ~((t < lb) \/ (t > ub))

\* Faulty variant of check_new_trajectory: the spacing of the points is
\* examined with interpolation enabled too.
check_always_timed(trajectory) ==
  IF ~heading_ok(trajectory) THEN FALSE
  ELSE \A idx \in 0..(Len(trajectory.points) - 1) : point_time_ok(trajectory, idx)

\* MpcController::check_new_trajectory.
check_new_trajectory(trajectory) ==
  IF ~heading_ok(trajectory) THEN FALSE
  ELSE IF m_config.do_interpolate THEN TRUE
  ELSE \A idx \in 0..(Len(trajectory.points) - 1) : point_time_ok(trajectory, idx)

\* Faulty variant of get_computed_trajectory: every point is read at the
\* first node.
computed_trajectory_of_first_node ==
  [stamp |-> reference.stamp,
   points |-> [k \in 1..HORIZON |->
     [x |-> x[IDX_X],
      y |-> x[IDX_Y],
      longitudinal_velocity_mps |-> x[IDX_VEL_LONG],
      lateral_velocity_mps |-> 0,
      heading |-> from_angle(x[IDX_HEADING]),
      acceleration_mps2 |-> u[IDX_JERK],
      heading_rate_rps |-> u[IDX_WHEEL_ANGLE_RATE]]]]

\* MpcController::get_computed_trajectory: the value returned.
get_computed_trajectory ==
  [stamp |-> reference.stamp,
   points |-> [k \in 1..HORIZON |->
     [x |-> x[(NX * (k - 1)) + IDX_X],
      y |-> x[(NX * (k - 1)) + IDX_Y],
      longitudinal_velocity_mps |-> x[(NX * (k - 1)) + IDX_VEL_LONG],
      lateral_velocity_mps |-> 0,
      heading |-> from_angle(x[(NX * (k - 1)) + IDX_HEADING]),
      acceleration_mps2 |-> u[(NU * (k - 1)) + IDX_JERK],
      heading_rate_rps |-> u[(NU * (k - 1)) + IDX_WHEEL_ANGLE_RATE]]]]

\* MpcController::get_computed_control_derivatives: the value returned.
get_computed_control_derivatives == [jerk_mps3 |-> 0, steering_angle_velocity_rps |-> 0]

Returned(kind) == [kind |-> kind, what |-> "", code |-> 0, command |-> ZeroCommand]

\* The outcome of a getter: what it returned.
ReturnedValue(kind, value) ==
  [kind |-> kind, what |-> "", code |-> 0, command |-> ZeroCommand, value |-> value]

\* ------------------------------------------------------------------------
\* Environments: what the collaborators feed the controller
\* ------------------------------------------------------------------------
\* The controller in operation: both configurations, every index the
\* resolution can return (regressing and out-of-range ones included).
Operation ==
  [configs |-> {ConfigA, ConfigB},
   trajectories |-> TrajectorySet,
   indices |-> [n \in 0..(LongLen + 1) |-> 0..(n + 1)],
   offsets |-> {0},
   solutions |-> {Solution},
   cycles |-> MaxCycles]

\* Sequences of cycles on clean trajectories under one config; any index up
\* to one past the end may be resolved, in any order.
Warm ==
  [configs |-> {ConfigA},
   trajectories |-> {MakeTrajectory(LongLen, -1, 0, -1),
                     MakeTrajectory(ShortLen, -1, 0, -1)},
   indices |-> [n \in 0..(LongLen + 1) |-> 0..(n + 1)],
   offsets |-> {0},
   solutions |-> {Solution},
   cycles |-> MaxCycles]

\* Sequences of one more cycle on the long trajectory, at the indices below
\* HORIZON - 1: a cycle, a cold start or a failed cycle, and the cycle after.
Retry ==
  [configs |-> {ConfigA},
   trajectories |-> {MakeTrajectory(LongLen, -1, 0, -1)},
   indices |-> [n \in 0..(LongLen + 1) |-> 0..(HORIZON - 2)],
   offsets |-> {0},
   solutions |-> {Solution},
   cycles |-> MaxCycles + 1]

\* The command interpolation on a fine grid of time offsets, lookahead
\* durations and solver results, at the first two reference points.
Interpolation ==
  [configs |-> {ConfigA, ConfigB, ConfigC, ConfigD},
   trajectories |-> {MakeTrajectory(LongLen, -1, 0, -1),
                     MakeTrajectory(ShortLen, -1, 0, -1)},
   indices |-> [n \in 0..(LongLen + 1) |-> 0..1],
   offsets |-> {-700, -300, -150, -100, -50, 0, 50, 100, 150, 300},
   solutions |-> {Solution, Diverged, DivergedLate},
   cycles |-> 1]

\* ------------------------------------------------------------------------
\* Construction
\* ------------------------------------------------------------------------
\* MpcController::MpcController(config): the working copy exists iff the
\* constructor's config interpolates; acado_initializeSolver clears the
\* workspace; apply_config fills parameters, bounds and weights.
Construct(env) ==
  \E cfg \in env.configs :
    /\ m_config = cfg
    /\ m_interpolated_trajectory =
         [present |-> cfg.do_interpolate, traj |-> EmptyTrajectory]
    /\ m_last_reference_index = 0
    /\ reference = EmptyTrajectory
    /\ x0 = [i \in 0..(NX - 1) |-> 0]
    /\ x = [i \in XIndices |-> 0]
    /\ u = ZeroControls
    /\ od = apply_parameters(cfg)
    /\ lbValues = apply_bounds(cfg).lbValues
    /\ ubValues = apply_bounds(cfg).ubValues
    /\ lbAValues = apply_bounds(cfg).lbAValues
    /\ ubAValues = apply_bounds(cfg).ubAValues
    /\ W_nominal = apply_weights(cfg).W_nominal
    /\ W_terminal = apply_weights(cfg).W_terminal
    /\ pc = "idle"
    /\ current_idx = 0
    /\ advance_idx = 0
    /\ cold_start = FALSE
    /\ dt = 0
    /\ checked_horizon = 0
    /\ state = NoState
    /\ outcome = NoOutcome
    /\ trace = <<>>
    /\ solver_returns = <<>>
    /\ offered = EmptyTrajectory
    /\ indices_nondecreasing = TRUE
    /\ previous_idx = 0
    /\ cycles = 0
    /\ config_just_set = NoConfig
    /\ completed_warm_index = 0
    /\ previous_cycle = NoCycle

Init == Construct(Operation)

\* ------------------------------------------------------------------------
\* compute_command_impl, step by step
\* ------------------------------------------------------------------------
\* The call ends: the caller gets result (pc "done"), or the process died.
EndCall(result) ==
  /\ outcome' = result
  /\ pc' = IF result.kind = "crash" THEN "crashed" ELSE "done"

\* get_current_state_temporal_index resolves idx, then update_references(idx).
BeginCycle(env) ==
  /\ pc = "idle"
  /\ cycles < env.cycles
  /\ Len(reference.points) > 0
  /\ \E idx \in env.indices[Len(reference.points)] :
       /\ LET r == update_references(idx)
          IN /\ current_idx' = idx
             /\ advance_idx' = r.advance_idx
             /\ cold_start' = r.cold_start
             /\ x' = r.x
             /\ u' = r.u
             /\ W_nominal' = r.W_nominal
             /\ W_terminal' = r.W_terminal
             /\ m_last_reference_index' = r.m_last_reference_index
       /\ indices_nondecreasing' = (indices_nondecreasing /\ idx >= previous_idx)
       /\ previous_idx' = IF indices_nondecreasing /\ idx >= previous_idx
                          THEN idx ELSE 0
  /\ cycles' = cycles + 1
  /\ config_just_set' = NoConfig
  /\ UNCHANGED <<completed_warm_index, previous_cycle>>
  /\ trace' = <<"update_references">>
  /\ solver_returns' = <<>>
  /\ pc' = "initial_conditions"
  /\ UNCHANGED <<m_config, m_interpolated_trajectory, reference, x0, bound_vars,
                 dt, state, checked_horizon, outcome,
                 offered>>

\* dt = x0_time_offset(state, current_idx);
\* initial_conditions(predict(state.state, dt)), for the state message of
\* this cycle.
SetInitialConditions(env) ==
  /\ pc = "initial_conditions"
  /\ \E off \in env.offsets :
       LET st == StateMessage(
                   reference.stamp + (current_idx * solver_time_step), off)
       IN /\ state' = st
          /\ \/ \E d \in x0_time_offset(st, current_idx) :
                  /\ dt' = d
                  /\ \/ /\ \E point \in predict(st, d) :
                             /\ x0' = initial_conditions(point).x0
                             /\ x' = initial_conditions(point).x
                        /\ trace' = trace \o <<"x0_time_offset", "initial_conditions">>
                        /\ pc' = "ensure_reference_consistency"
                        /\ UNCHANGED outcome
                     \/ /\ predict(st, d) = {}
                        /\ trace' = Append(trace, "x0_time_offset")
                        /\ EndCall(Crash)
                        /\ UNCHANGED <<x0, x>>
             \/ /\ current_idx >= Len(reference.points)
                /\ EndCall(Crash)
                /\ UNCHANGED <<dt, x0, x, trace>>
  /\ UNCHANGED <<m_config, m_interpolated_trajectory, m_last_reference_index,
                 reference, u, bound_vars, weight_vars, current_idx,
                 advance_idx, cold_start, checked_horizon, solver_returns, offered,
                 history_vars, config_just_set, completed_warm_index,
                 previous_cycle>>

\* cold_start = ensure_reference_consistency(horizon) || cold_start;
\* if (cold_start) { zero u; forward simulate }.
EnsureReferenceConsistency ==
  /\ pc = "ensure_reference_consistency"
  /\ checked_horizon' = effective_horizon(current_idx)
  /\ LET r == ensure_reference_consistency(effective_horizon(current_idx))
     IN /\ W_nominal' = r.W_nominal
        /\ W_terminal' = r.W_terminal
  /\ \E reset \in BOOLEAN :
       /\ cold_start' = (reset \/ cold_start)
       /\ u' = cold_start_reset(reset \/ cold_start, x, u).u
       /\ x' = cold_start_reset(reset \/ cold_start, x, u).x
       /\ trace' = IF reset \/ cold_start
                   THEN trace \o <<"ensure_reference_consistency",
                                   "zero_controls", "forward_simulation">>
                   ELSE Append(trace, "ensure_reference_consistency")
  /\ pc' = "solve"
  /\ UNCHANGED <<m_config, m_interpolated_trajectory, m_last_reference_index,
                 reference, x0, bound_vars, current_idx, advance_idx,
                 dt, state, outcome, solver_returns, offered, history_vars,
                 config_just_set, completed_warm_index,
                 previous_cycle>>

\* solve(): acado_preparationStep, then acado_feedbackStep, whose success
\* leaves a solution in the horizon buffer.
Solve(env) ==
  /\ pc = "solve"
  /\ \E prep_ret \in StatusCodes :
       IF preparation_result(prep_ret).kind # "none"
       THEN /\ trace' = Append(trace, "preparation")
            /\ solver_returns' = <<prep_ret>>
            /\ EndCall(preparation_result(prep_ret))
            /\ UNCHANGED <<u, x>>
       ELSE /\ trace' = trace \o <<"preparation", "feedback">>
            /\ \E solve_ret \in StatusCodes :
                 /\ solver_returns' = <<prep_ret, solve_ret>>
                 /\ IF feedback_result(solve_ret).kind # "none"
                    THEN /\ EndCall(feedback_result(solve_ret))
                         /\ UNCHANGED <<u, x>>
                    ELSE /\ \E sol \in env.solutions : u' = sol.u /\ x' = sol.x
                         /\ pc' = "interpolated_command"
                         /\ UNCHANGED outcome
  /\ UNCHANGED <<m_config, m_interpolated_trajectory, m_last_reference_index,
                 reference, x0, bound_vars, weight_vars, cycle_vars, offered,
                 history_vars,
                 config_just_set, completed_warm_index,
                 previous_cycle>>

\* return interpolated_command(dt).
InterpolatedCommand ==
  /\ pc = "interpolated_command"
  /\ trace' = Append(trace, "interpolated_command")
  /\ \E result \in interpolated_command(dt) : EndCall(result)
  /\ UNCHANGED <<m_config, m_interpolated_trajectory, m_last_reference_index,
                 reference, solver_vars, bound_vars, weight_vars, cycle_vars,
                 solver_returns, offered, history_vars,
                 config_just_set, completed_warm_index,
                 previous_cycle>>

\* The call has returned to its caller: its locals are gone.  With record
\* set, the history of completed warm cycles is kept.
Return(record) ==
  /\ pc = "done"
  /\ pc' = "idle"
  /\ current_idx' = 0
  /\ advance_idx' = 0
  /\ cold_start' = FALSE
  /\ dt' = 0
  /\ checked_horizon' = 0
  /\ state' = NoState
  /\ outcome' = NoOutcome
  /\ trace' = <<>>
  /\ solver_returns' = <<>>
  /\ offered' = EmptyTrajectory
  /\ config_just_set' = IF outcome.kind = "set_config" THEN m_config ELSE NoConfig
  /\ completed_warm_index' = IF record /\ outcome.kind = "command" /\ current_idx > 0
                           THEN m_last_reference_index
                           ELSE completed_warm_index
  /\ previous_cycle' = IF record /\ trace # <<>>
                     THEN [idx |-> current_idx, kind |-> outcome.kind]
                     ELSE previous_cycle
  /\ UNCHANGED <<m_config, m_interpolated_trajectory, m_last_reference_index,
                 reference, solver_vars, bound_vars, weight_vars, history_vars>>

ReturnToCaller == Return(FALSE)

\* ------------------------------------------------------------------------
\* Calls between cycles
\* ------------------------------------------------------------------------
\* MpcController::set_config.
SetConfig ==
  /\ pc = "idle"
  /\ \E cfg \in ConfigSet :
       LET r == set_config(cfg)
       IN /\ m_config' = r.m_config
          /\ od' = r.od
          /\ lbValues' = r.lbValues
          /\ ubValues' = r.ubValues
          /\ lbAValues' = r.lbAValues
          /\ ubAValues' = r.ubAValues
          /\ W_nominal' = r.W_nominal
          /\ W_terminal' = r.W_terminal
          /\ x0' = r.x0
          /\ x' = r.x
          /\ u' = r.u
          /\ m_last_reference_index' = r.m_last_reference_index
  /\ outcome' = Returned("set_config")
  /\ pc' = "done"
  /\ UNCHANGED <<m_interpolated_trajectory, reference, cycle_vars, trace,
                 solver_returns, offered, history_vars, config_just_set, completed_warm_index,
                 previous_cycle>>

\* A trajectory of the set is offered: check_new_trajectory decides whether
\* it becomes the reference (and the content of the working copy, if any).
OfferTrajectory(trajectories) ==
  /\ pc = "idle"
  /\ \E trajectory \in trajectories :
       /\ offered' = trajectory
       /\ IF check_new_trajectory(trajectory)
          THEN /\ reference' = trajectory
               /\ m_interpolated_trajectory' =
                    IF m_interpolated_trajectory.present
                    THEN [present |-> TRUE, traj |-> trajectory]
                    ELSE m_interpolated_trajectory
               /\ outcome' = Returned("accepted")
          ELSE /\ UNCHANGED <<reference, m_interpolated_trajectory>>
               /\ outcome' = Returned("rejected")
  /\ config_just_set' = NoConfig
  /\ UNCHANGED <<completed_warm_index, previous_cycle>>
  /\ pc' = "done"
  /\ UNCHANGED <<m_config, m_last_reference_index, solver_vars, bound_vars,
                 weight_vars, cycle_vars, trace, solver_returns, history_vars>>

\* MpcController::get_computed_trajectory.
GetComputedTrajectory ==
  /\ pc = "idle"
  /\ outcome' = ReturnedValue("computed_trajectory", get_computed_trajectory)
  /\ config_just_set' = NoConfig
  /\ UNCHANGED <<completed_warm_index, previous_cycle>>
  /\ pc' = "done"
  /\ UNCHANGED <<m_config, m_interpolated_trajectory, m_last_reference_index,
                 reference, solver_vars, bound_vars, weight_vars, cycle_vars,
                 trace, solver_returns, offered, history_vars>>

\* MpcController::get_computed_control_derivatives.
GetComputedControlDerivatives ==
  /\ pc = "idle"
  /\ outcome' = ReturnedValue("control_derivatives", get_computed_control_derivatives)
  /\ config_just_set' = NoConfig
  /\ UNCHANGED <<completed_warm_index, previous_cycle>>
  /\ pc' = "done"
  /\ UNCHANGED <<m_config, m_interpolated_trajectory, m_last_reference_index,
                 reference, solver_vars, bound_vars, weight_vars, cycle_vars,
                 trace, solver_returns, offered, history_vars>>

\* ------------------------------------------------------------------------
\* Specifications
\* ------------------------------------------------------------------------
UpdateReferences == BeginCycle(Operation)
InitialConditions == SetInitialConditions(Operation)
SolverSolve == Solve(Operation)
SetTrajectory == OfferTrajectory(Operation.trajectories)

Next ==
  \/ UpdateReferences
  \/ InitialConditions
  \/ EnsureReferenceConsistency
  \/ SolverSolve
  \/ InterpolatedCommand
  \/ ReturnToCaller
  \/ SetConfig
  \/ SetTrajectory
  \/ GetComputedTrajectory
  \/ GetComputedControlDerivatives

Spec == Init /\ [][Next]_vars

\* One cycle of the controller under every lookahead duration, on the fine
\* grid of time offsets.
InterpolationInit == Construct(Interpolation)
InterpolationBegin == BeginCycle(Interpolation)
InterpolationInitialConditions == SetInitialConditions(Interpolation)
InterpolationSolve == Solve(Interpolation)
InterpolationTrajectory == OfferTrajectory(Interpolation.trajectories)

InterpolationNext ==
  \/ InterpolationTrajectory
  \/ InterpolationBegin
  \/ InterpolationInitialConditions
  \/ EnsureReferenceConsistency
  \/ InterpolationSolve
  \/ InterpolatedCommand
  \/ ReturnToCaller

InterpolationSpec == InterpolationInit /\ [][InterpolationNext]_vars

\* Sequences of cycles with the history of the completed warm cycles.
WarmInit == Construct(Warm)
WarmBegin == BeginCycle(Warm)
WarmInitialConditions == SetInitialConditions(Warm)
WarmSolve == Solve(Warm)
WarmTrajectory == OfferTrajectory(Warm.trajectories)
WarmReturn == Return(TRUE)

WarmNext ==
  \/ WarmTrajectory
  \/ WarmBegin
  \/ WarmInitialConditions
  \/ EnsureReferenceConsistency
  \/ WarmSolve
  \/ InterpolatedCommand
  \/ WarmReturn

WarmSpec == WarmInit /\ [][WarmNext]_vars

\* Sequences of cycles with restarts and retries, with the history of the
\* cycle before.
RetryInit == Construct(Retry)
RetryBegin == BeginCycle(Retry)
RetryInitialConditions == SetInitialConditions(Retry)
RetrySolve == Solve(Retry)
RetryTrajectory == OfferTrajectory(Retry.trajectories)
RetryReturn == Return(TRUE)

RetryNext ==
  \/ RetryTrajectory
  \/ RetryBegin
  \/ RetryInitialConditions
  \/ EnsureReferenceConsistency
  \/ RetrySolve
  \/ InterpolatedCommand
  \/ RetryReturn

RetrySpec == RetryInit /\ [][RetryNext]_vars

\* The validator alone, on every trajectory of ValidatorTrajectorySet, under
\* every configuration.
ValidateTrajectory == OfferTrajectory(ValidatorTrajectorySet)

ValidatorNext ==
  \/ SetConfig
  \/ ValidateTrajectory
  \/ ReturnToCaller

ValidatorSpec == Init /\ [][ValidatorNext]_vars

\* ------------------------------------------------------------------------
\* Properties
\* ------------------------------------------------------------------------
\* Whether, and how often, and where the running cycle has executed a step.
InTrace(step) == \E i \in 1..Len(trace) : trace[i] = step
Occurrences(step) == Cardinality({i \in 1..Len(trace) : trace[i] = step})
Position(step) == CHOOSE i \in 1..Len(trace) : trace[i] = step

\* C1: a non-zero status of the solver's preparation or feedback phase ends
\* the cycle in an error that names the phase and carries the status, and no
\* Command is returned; after a failed preparation the feedback phase is not
\* invoked; each phase is invoked at most once per cycle.
C1_SolverErrorSurfaced ==
  /\ Occurrences("preparation") <= 1
  /\ Occurrences("feedback") <= 1
  /\ Len(solver_returns) = Occurrences("preparation") + Occurrences("feedback")
  /\ (Len(solver_returns) >= 1 /\ solver_returns[1] # 0) =>
       /\ pc = "done"
       /\ outcome = RuntimeError("Solver preparation error: ", solver_returns[1])
       /\ Occurrences("feedback") = 0
       /\ Occurrences("interpolated_command") = 0
  /\ (Len(solver_returns) = 2 /\ solver_returns[2] # 0) =>
       /\ pc = "done"
       /\ outcome = RuntimeError("Solver error: ", solver_returns[2])
       /\ Occurrences("interpolated_command") = 0

\* A cycle whose preparation succeeded and whose feedback phase returned the
\* largest status has ended.
C1_Witness ==
  /\ pc = "done"
  /\ solver_returns = <<0, MaxStatus>>
  /\ outcome.kind = "runtime_error"

\* C2: every Command a cycle returns has finite longitudinal acceleration,
\* front-wheel angle, velocity and rear-wheel angle, whatever the solver
\* left in the horizon buffer (stated for the cycles whose interpolation
\* reads inside the buffer only).
C2_ReturnedCommandFinite ==
  (pc = "done" /\ outcome.kind = "command" /\ ~reads_out_of_bounds(dt)) =>
    /\ IsFinite(outcome.command.long_accel_mps2)
    /\ IsFinite(outcome.command.front_wheel_angle_rad)
    /\ IsFinite(outcome.command.velocity_mps)
    /\ IsFinite(outcome.command.rear_wheel_angle_rad)

\* C3: a cycle whose index is below last_reference_index (the advance is
\* negative, so the unsigned advance exceeds the index) or not below the
\* trajectory's length never gets as far as the solver with the wrapped or
\* clamped values: it ends in a reported error, not in a Command, a solver
\* error or a crash.
C3_InvalidIndexFailsFast ==
  (/\ InTrace("update_references")
   /\ (advance_idx > current_idx \/ current_idx >= Len(reference.points))
   /\ pc \in {"solve", "interpolated_command", "done", "crashed"}) =>
    /\ pc = "done"
    /\ outcome.kind = "runtime_error"
    /\ solver_returns = <<>>

\* C4: as long as the resolved indices since construction were
\* non-decreasing, last_reference_index equals the index passed to
\* update_references in the cycle, from that call on.
C4_LastIndexIsPassedIndex ==
  (InTrace("update_references") /\ indices_nondecreasing) =>
    m_last_reference_index = current_idx

\* A second cycle has returned a Command after the index advanced from a
\* non-zero index to a larger one.
C4_Witness ==
  /\ pc = "done"
  /\ outcome.kind = "command"
  /\ indices_nondecreasing
  /\ advance_idx >= 1
  /\ advance_idx < current_idx
  /\ m_last_reference_index = current_idx

\* C5: when the preparation phase is about to be invoked in a cold-start
\* cycle (index 0, or a reset reported by the consistency check), every
\* control is zero and the state sequence is the forward simulation from the
\* initial condition under zero controls, run after the zeroing and after
\* the initial condition was written; in any other cycle the controls were
\* not zeroed and no simulation was run.
C5_ColdStartReset ==
  (pc = "solve") =>
    /\ (current_idx = 0) => cold_start
    /\ cold_start =>
         /\ u = ZeroControls
         /\ \A i \in 0..(NX - 1) : x[i] = x0[i]
         /\ x = ForwardSimulation(x, ZeroControls)
         /\ Occurrences("zero_controls") = 1
         /\ Occurrences("forward_simulation") = 1
         /\ Position("initial_conditions") < Position("zero_controls")
         /\ Position("zero_controls") < Position("forward_simulation")
    /\ (~cold_start) =>
         /\ ~InTrace("zero_controls")
         /\ ~InTrace("forward_simulation")

\* The second cycle, at a non-zero index, is about to solve after the
\* consistency check reported a reset.
C5_Witness ==
  /\ pc = "solve"
  /\ cold_start
  /\ current_idx > 0
  /\ cycles = 2
  /\ u = ZeroControls

\* C6: after a warm cycle whose remaining reference length r is below
\* HORIZON, the terminal weight is on step r - 1 and on no other step, and
\* the nominal weight of every step from r on is zero.
C6_TerminalWeightPlacement ==
  LET r == Len(reference.points) - current_idx
  IN (/\ pc = "done"
      /\ InTrace("ensure_reference_consistency")
      /\ current_idx > 0
      /\ r >= 1
      /\ r < HORIZON) =>
       /\ \A i \in Steps : (W_terminal[i] # 0) <=> (i = r - 1)
       /\ \A i \in Steps : (i >= r) => (W_nominal[i] = 0)

\* C7: for every time offset and lookahead duration, the count computed by
\* the command interpolation is in 0..HORIZON-2, the samples count and
\* count + 1 are inside the control sequence, and the interpolation
\* parameter is in [0, 1).
C7_CountAndFractionInRange ==
  InTrace("interpolated_command") =>
    /\ 0 <= interpolation_count(dt)
    /\ interpolation_count(dt) <= HORIZON - 2
    /\ (interpolation_count(dt) * NU) + IDX_JERK \in UIndices
    /\ ((interpolation_count(dt) + 1) * NU) + IDX_WHEEL_ANGLE_RATE \in UIndices
    /\ 0 <= interpolation_dt(dt)
    /\ interpolation_dt(dt) < solver_time_step

\* C8: the velocity of a returned Command is the longitudinal velocity of
\* node count of the state sequence, for every count in 0..HORIZON-2, and
\* the element read is inside the state sequence.
C8_VelocityAtCount ==
  (pc = "done" /\ outcome.kind = "command") =>
    LET count == interpolation_count(dt)
    IN (count \in 0..(HORIZON - 2)) =>
         /\ velocity_index(count) \in XIndices
         /\ outcome.command.velocity_mps = x[(count * NX) + IDX_VEL_LONG]

\* C9: for remaining = lookahead - offset in [0, step * (HORIZON - 1)), the
\* returned acceleration and steering angle are the linear interpolation of
\* the control samples count and count + 1, for count = min(floor(remaining /
\* step), HORIZON - 2) and the parameter (remaining - count * step) / step,
\* and the rear-wheel angle is zero; with step 100 ms, lookahead 250 ms and
\* offset 0 they are the midpoint of the samples 2 and 3.  (The fields of a
\* Command are kept multiplied by the step.)
C9_LinearInterpolation ==
  (pc = "done" /\ outcome.kind = "command") =>
    LET step == solver_time_step
        remaining == m_config.control_lookahead_duration - dt
        count == Min(remaining \div step, HORIZON - 2)
        num == remaining - (count * step)
        a0 == u[(count * NU) + IDX_JERK]
        a1 == u[((count + 1) * NU) + IDX_JERK]
        w0 == u[(count * NU) + IDX_WHEEL_ANGLE_RATE]
        w1 == u[((count + 1) * NU) + IDX_WHEEL_ANGLE_RATE]
    IN /\ (0 <= remaining /\ remaining < step * (HORIZON - 1)) =>
            /\ outcome.command.long_accel_mps2 = (step * a0) + (num * (a1 - a0))
            /\ outcome.command.front_wheel_angle_rad = (step * w0) + (num * (w1 - w0))
            /\ outcome.command.rear_wheel_angle_rad = 0
       /\ (step = 100 /\ m_config.control_lookahead_duration = 250 /\ dt = 0) =>
            /\ interpolation_count(dt) = 2
            /\ 2 * interpolation_dt(dt) = step
            /\ 2 * outcome.command.long_accel_mps2 =
                 step * (u[(2 * NU) + IDX_JERK] + u[(3 * NU) + IDX_JERK])
            /\ 2 * outcome.command.front_wheel_angle_rad =
                 step * (u[(2 * NU) + IDX_WHEEL_ANGLE_RATE]
                         + u[(3 * NU) + IDX_WHEEL_ANGLE_RATE])

\* The cycle of the example has returned a Command: lookahead 250 ms, offset
\* 0, on a solution whose samples 2 and 3 differ.
C9_Witness ==
  /\ pc = "done"
  /\ outcome.kind = "command"
  /\ m_config.control_lookahead_duration = 250
  /\ dt = 0
  /\ u = Solution.u
  /\ u[(2 * NU) + IDX_JERK] # u[(3 * NU) + IDX_JERK]

\* The condition of acceptance without interpolation: every heading valid
\* and every point's absolute time within the closed tolerance interval
\* around its nominal time.
WithinTolerance(trajectory) ==
  /\ \A i \in 1..Len(trajectory.points) :
       heading_valid(trajectory.points[i].heading)
  /\ \A i \in 1..Len(trajectory.points) :
       LET t == trajectory.stamp + trajectory.points[i].time_from_start
           nominal == trajectory.stamp + ((i - 1) * solver_time_step)
       IN /\ nominal - m_config.sample_period_tolerance <= t
          /\ t <= nominal + m_config.sample_period_tolerance

\* C10: with interpolation disabled, a trajectory is accepted iff every
\* heading is valid and every point's absolute time lies in the closed
\* interval of the tolerance around header.stamp + i * step; the validation
\* changes no state of the controller (a refused trajectory changes nothing,
\* an accepted one becomes the reference).
C10_ValidatorAcceptance ==
  /\ [](  (/\ pc = "done"
           /\ outcome.kind \in {"accepted", "rejected"}
           /\ ~m_config.do_interpolate) =>
          ((outcome.kind = "accepted") <=> WithinTolerance(offered)))
  /\ [][ (pc = "idle" /\ outcome'.kind \in {"accepted", "rejected"}) =>
           /\ UNCHANGED <<m_config, m_last_reference_index, solver_vars,
                          bound_vars, weight_vars>>
           /\ (outcome'.kind = "rejected") =>
                UNCHANGED <<reference, m_interpolated_trajectory>> ]_vars

\* A trajectory with a point exactly the tolerance late was accepted without
\* interpolation.
C10_Witness ==
  /\ pc = "done"
  /\ outcome.kind = "accepted"
  /\ ~m_config.do_interpolate
  /\ \E i \in 1..Len(offered.points) :
       offered.points[i].time_from_start =
         ((i - 1) * solver_time_step) + m_config.sample_period_tolerance

\* C11 (as stated): with interpolation enabled in the current config, every
\* offered trajectory is accepted.
C11_InterpolationAcceptsAny ==
  (/\ pc = "done"
   /\ outcome.kind \in {"accepted", "rejected"}
   /\ m_config.do_interpolate) =>
    (outcome.kind = "accepted")

\* C11 (amended): with interpolation enabled in the current config, a
\* trajectory is accepted iff every heading is valid, whatever the spacing
\* of its points.
C11_InterpolationAcceptsValidHeadings ==
  (/\ pc = "done"
   /\ outcome.kind \in {"accepted", "rejected"}
   /\ m_config.do_interpolate) =>
    ((outcome.kind = "accepted") <=>
       (\A i \in 1..Len(offered.points) :
          heading_valid(offered.points[i].heading)))

\* With interpolation enabled, a trajectory with a point further from its
\* nominal time than the tolerance was accepted.
C11_Witness ==
  /\ pc = "done"
  /\ outcome.kind = "accepted"
  /\ m_config.do_interpolate
  /\ ~WithinTolerance(offered)

\* ------------------------------------------------------------------------
\* C12: a set_config call between cycles replaces the config, rewrites the
\* per-step parameter, bound and weight arrays from the new config, and
\* leaves x, u, the x0 slot and m_last_reference_index as they were.
C12_SetConfigKeepsSolverState ==
  [][(pc = "idle" /\ outcome'.kind = "set_config") =>
       (/\ m_config' \in ConfigSet
        /\ \A i \in Steps :
             /\ od'[(i * ACADO_NOD)] = m_config'.length_cg_front_axel
             /\ od'[(i * ACADO_NOD) + 1] = m_config'.length_cg_rear_axel
             /\ lbValues'[(i * NUM_CTRL_CONSTRAINTS)] = m_config'.acceleration_min
             /\ ubValues'[(i * NUM_CTRL_CONSTRAINTS)] = m_config'.acceleration_max
             /\ lbValues'[(i * NUM_CTRL_CONSTRAINTS) + 1] = m_config'.steer_angle_min
             /\ ubValues'[(i * NUM_CTRL_CONSTRAINTS) + 1] = m_config'.steer_angle_max
             /\ lbAValues'[(i * NUM_STATE_CONSTRAINTS)] = m_config'.longitudinal_velocity_min
             /\ ubAValues'[(i * NUM_STATE_CONSTRAINTS)] = m_config'.longitudinal_velocity_max
             /\ W_nominal'[i] = m_config'.nominal
             /\ W_terminal'[i] = (IF i = HORIZON - 1 THEN m_config'.terminal ELSE 0)
        /\ UNCHANGED <<x0, x, u, m_last_reference_index>>)]_vars

\* set_config has returned on a controller whose solver holds a solution, an
\* initial state and a non-zero reference index, with weights that differed
\* from the fresh ones of any config.
C12_Witness ==
  /\ pc = "done"
  /\ outcome.kind = "set_config"
  /\ m_last_reference_index > 0
  /\ u = Solution.u
  /\ x0 # [i \in 0..(NX - 1) |-> 0]
  /\ config_just_set = NoConfig

\* ------------------------------------------------------------------------
\* C13: set_config(c) called directly after set_config(c) leaves the
\* parameter, bound and weight arrays as the first call left them.
C13_SetConfigIdempotent ==
  [][(pc = "idle" /\ outcome'.kind = "set_config" /\ config_just_set = m_config') =>
       UNCHANGED <<od, lbValues, ubValues, lbAValues, ubAValues,
                   W_nominal, W_terminal>>]_vars

\* The second of two consecutive set_config calls with the same config has
\* returned, on a controller that has solved a cycle before.
C13_Witness ==
  /\ pc = "done"
  /\ outcome.kind = "set_config"
  /\ config_just_set = m_config
  /\ cycles > 0
  /\ m_last_reference_index > 0

\* ------------------------------------------------------------------------
\* C14: get_computed_trajectory and get_computed_control_derivatives run no
\* solver phase and leave the solver buffer, the parameter, bound and weight
\* arrays and m_last_reference_index unchanged; the trajectory returned has
\* exactly HORIZON points, each with lateral velocity zero and its other
\* fields read from the state and control entries of the same index; the
\* control derivatives returned are zero.
C14_GettersReadOnly ==
  [][(pc = "idle" /\ outcome'.kind \in {"computed_trajectory", "control_derivatives"}) =>
       (/\ UNCHANGED <<x0, x, u, od, lbValues, ubValues, lbAValues, ubAValues,
                       W_nominal, W_terminal, m_last_reference_index,
                       solver_returns, trace>>
        /\ (outcome'.kind = "computed_trajectory") =>
             (/\ Len(outcome'.value.points) = HORIZON
              /\ \A i \in Steps :
                   LET pt == outcome'.value.points[i + 1]
                   IN /\ pt.lateral_velocity_mps = 0
                      /\ pt.x = x[(NX * i) + IDX_X]
                      /\ pt.y = x[(NX * i) + IDX_Y]
                      /\ pt.longitudinal_velocity_mps = x[(NX * i) + IDX_VEL_LONG]
                      /\ pt.heading = from_angle(x[(NX * i) + IDX_HEADING])
                      /\ pt.acceleration_mps2 = u[(NU * i) + IDX_JERK]
                      /\ pt.heading_rate_rps = u[(NU * i) + IDX_WHEEL_ANGLE_RATE])
        /\ (outcome'.kind = "control_derivatives") =>
             (/\ outcome'.value.jerk_mps3 = 0
              /\ outcome'.value.steering_angle_velocity_rps = 0))]_vars

\* get_computed_trajectory has returned the solution of a solved cycle.
C14_Witness ==
  /\ pc = "done"
  /\ outcome.kind = "computed_trajectory"
  /\ u = Solution.u
  /\ x = Solution.x
  /\ m_last_reference_index > 0

\* get_computed_control_derivatives has returned while the first control
\* sample is not zero.
C14_ZeroDerivativesWitness ==
  /\ pc = "done"
  /\ outcome.kind = "control_derivatives"
  /\ u[IDX_JERK] # 0

\* ------------------------------------------------------------------------
\* C15: a cycle runs update_references, the dt computation, the initial
\* condition, the consistency check (with horizon min(len - idx, HORIZON)),
\* the cold reset when cold_start is set, the solve and the interpolation, in
\* this order; the check runs in every cycle after the initial condition and
\* can turn cold_start from false to true, never from true to false; the dt
\* handed to the interpolator is the one computed before the initial
\* condition was written.
WarmOrder ==
  <<"update_references", "x0_time_offset", "initial_conditions",
    "ensure_reference_consistency", "preparation", "feedback",
    "interpolated_command">>

ColdOrder ==
  <<"update_references", "x0_time_offset", "initial_conditions",
    "ensure_reference_consistency", "zero_controls", "forward_simulation",
    "preparation", "feedback", "interpolated_command">>

IsPrefix(s, t) == Len(s) <= Len(t) /\ \A i \in 1..Len(s) : s[i] = t[i]

C15_CycleOrder ==
  [][/\ (IsPrefix(trace', WarmOrder) \/ IsPrefix(trace', ColdOrder))
     /\ (pc' \in {"solve", "interpolated_command"}) =>
          (/\ IsPrefix(SubSeq(WarmOrder, 1, 4), trace')
           /\ (current_idx' <= Len(reference'.points)) =>
                (checked_horizon' =
                   Min(Len(reference'.points) - current_idx', HORIZON))
           /\ (current_idx' < Len(reference'.points)) =>
                (dt' = (reference'.stamp +
                        At(reference'.points, current_idx').time_from_start)
                       - state'.stamp))
     /\ (pc = "ensure_reference_consistency" /\ cold_start) => cold_start'
     /\ (pc \in {"solve", "interpolated_command"}) =>
          (cold_start' = cold_start /\ dt' = dt)
     /\ (pc = "ensure_reference_consistency") => (dt' = dt /\ x0' = x0)
     /\ (pc = "interpolated_command" /\ pc' = "done") =>
          (/\ trace' = (IF cold_start THEN ColdOrder ELSE WarmOrder)
           /\ outcome' \in interpolated_command(dt))]_vars

\* A cycle at a non-zero index, which update_references left warm, has been
\* made cold by the consistency check of a reference shorter than the horizon
\* and has returned a command interpolated at a non-zero dt.
C15_Witness ==
  /\ pc = "done"
  /\ outcome.kind = "command"
  /\ current_idx > 0
  /\ cold_start
  /\ checked_horizon < HORIZON
  /\ dt # 0
  /\ trace = ColdOrder

\* ------------------------------------------------------------------------
\* C16: update_references(0) returns true and does no bookkeeping: x and u
\* are not shifted or backfilled, no weight changes and
\* m_last_reference_index keeps its value; update_references(k), k > 0,
\* returns false and sets m_last_reference_index to k after the bookkeeping,
\* which therefore advances by k minus the index of the cycle before.
C16_UpdateReferences ==
  [][(pc = "idle" /\ pc' = "initial_conditions") =>
       IF current_idx' = 0
       THEN /\ cold_start'
            /\ UNCHANGED <<x, u, W_nominal, W_terminal, m_last_reference_index>>
       ELSE /\ ~cold_start'
            /\ m_last_reference_index' = current_idx'
            /\ advance_idx' =
                 (current_idx' - m_last_reference_index) % IndexModulus]_vars

\* update_references(0) has returned on a controller that holds a solution
\* and a non-zero index from the cycle before.
C16_Witness ==
  /\ pc = "initial_conditions"
  /\ current_idx = 0
  /\ cold_start
  /\ m_last_reference_index > 0
  /\ u = Solution.u
  /\ \E i \in Steps : W_nominal[i] = 0

\* update_references(k), k > 0, has returned after shifting a solution by
\* more than one step.
C16_WarmWitness ==
  /\ pc = "initial_conditions"
  /\ current_idx > 1
  /\ ~cold_start
  /\ advance_idx > 1
  /\ m_last_reference_index = current_idx
  /\ u # Solution.u
  /\ u # ZeroControls

\* ------------------------------------------------------------------------
\* C17: from one warm cycle (index > 0) that returned a Command to the next
\* one that does, m_last_reference_index does not decrease.
C17_LastIndexNonDecreasing ==
  (/\ pc = "done"
   /\ outcome.kind = "command"
   /\ current_idx > 0
   /\ completed_warm_index > 0) =>
    m_last_reference_index >= completed_warm_index

\* ------------------------------------------------------------------------
\* C18: after construction and after every set_config(c), on every horizon
\* step the two geometry parameters are c's front and rear CG lengths, the
\* control bounds are c's acceleration and steering-angle limits and the
\* state bound is c's longitudinal-velocity limits; no slot holds a value of
\* an earlier config.
C18_ParametersAndBoundsOfConfig ==
  \A i \in Steps :
    /\ od[(i * ACADO_NOD)] = m_config.length_cg_front_axel
    /\ od[(i * ACADO_NOD) + 1] = m_config.length_cg_rear_axel
    /\ lbValues[(i * NUM_CTRL_CONSTRAINTS)] = m_config.acceleration_min
    /\ ubValues[(i * NUM_CTRL_CONSTRAINTS)] = m_config.acceleration_max
    /\ lbValues[(i * NUM_CTRL_CONSTRAINTS) + 1] = m_config.steer_angle_min
    /\ ubValues[(i * NUM_CTRL_CONSTRAINTS) + 1] = m_config.steer_angle_max
    /\ lbAValues[(i * NUM_STATE_CONSTRAINTS)] = m_config.longitudinal_velocity_min
    /\ ubAValues[(i * NUM_STATE_CONSTRAINTS)] = m_config.longitudinal_velocity_max

\* set_config has returned with a config that differs, in every parameter
\* and bound, from the one set by the call before it, after a solved cycle.
C18_Witness ==
  /\ pc = "done"
  /\ outcome.kind = "set_config"
  /\ config_just_set \in ConfigSet
  /\ config_just_set.length_cg_front_axel # m_config.length_cg_front_axel
  /\ config_just_set.length_cg_rear_axel # m_config.length_cg_rear_axel
  /\ config_just_set.acceleration_min # m_config.acceleration_min
  /\ config_just_set.acceleration_max # m_config.acceleration_max
  /\ config_just_set.steer_angle_min # m_config.steer_angle_min
  /\ config_just_set.steer_angle_max # m_config.steer_angle_max
  /\ config_just_set.longitudinal_velocity_min # m_config.longitudinal_velocity_min
  /\ config_just_set.longitudinal_velocity_max # m_config.longitudinal_velocity_max
  /\ cycles > 0

\* ------------------------------------------------------------------------
\* C19: in every reachable state the interpolation working copy exists
\* whenever the current config has interpolation enabled.
C19_WorkingCopyExists ==
  m_config.do_interpolate => m_interpolated_trajectory.present

\* ------------------------------------------------------------------------
\* C20: in every warm cycle with valid indices (m_last_reference_index, as
\* the cycle found it, <= current index < trajectory length) whose remaining
\* length r is below HORIZON, the range [r, r + advance) of nominal weights
\* that update_references asks to zero ends inside the horizon.
C20_ZeroingRangeInsideHorizon ==
  LET r == Len(reference.points) - current_idx
  IN (/\ InTrace("update_references")
      /\ current_idx > 0
      /\ advance_idx <= current_idx
      /\ current_idx < Len(reference.points)
      /\ r < HORIZON) =>
       r + advance_idx <= HORIZON

\* ------------------------------------------------------------------------
\* C21: in the warm cycle at index k > 0 that follows a cold-start cycle at
\* index 0, the advance applied is k, whatever m_last_reference_index held
\* from the cycles before the cold start.
C21_AdvanceSinceColdStart ==
  (/\ InTrace("update_references")
   /\ current_idx > 0
   /\ previous_cycle # NoCycle
   /\ previous_cycle.idx = 0
   /\ previous_cycle.kind = "command") =>
    advance_idx = current_idx

\* ------------------------------------------------------------------------
\* C22: a warm cycle at index k > 0 that ends in a solver error leaves
\* m_last_reference_index = k; a cycle retried at the same index k computes
\* advance 0 and leaves the state and control sequences of the previous
\* solution, the weights and the index as they were.
C22_RetryDoesNotShiftAgain ==
  [][/\ (pc' = "done" /\ outcome'.kind = "runtime_error" /\ current_idx' > 0) =>
          (m_last_reference_index' = current_idx')
     /\ (/\ pc = "idle"
         /\ pc' = "initial_conditions"
         /\ previous_cycle # NoCycle
         /\ previous_cycle.kind = "runtime_error"
         /\ previous_cycle.idx > 0
         /\ current_idx' = previous_cycle.idx) =>
          (/\ m_last_reference_index = current_idx'
           /\ advance_idx' = 0
           /\ ~cold_start'
           /\ UNCHANGED <<x, u, W_nominal, W_terminal, m_last_reference_index>>)]_vars

\* The retry of a failed warm cycle has run update_references: the cycle
\* before ended in a solver error at the same index, after it had shifted
\* the solution of an earlier cycle by that index.
C22_Witness ==
  /\ pc = "initial_conditions"
  /\ previous_cycle # NoCycle
  /\ previous_cycle.kind = "runtime_error"
  /\ previous_cycle.idx > 1
  /\ current_idx = previous_cycle.idx
  /\ advance_idx = 0
  /\ u = ShiftBlocks(Solution.u, NU, current_idx)
  /\ u # Solution.u

====
